---- MODULE Spec2Model ----
(***************************************************************************)
(* Sticky headings: the heading-collapse routine (trivial), the preview    *)
(* offset resolver, the renderHeadings pipeline with its await points, the *)
(* settings tab and the fileResolveMap life cycle of the plugin.           *)
(***************************************************************************)
EXTENDS Integers, Sequences, FiniteSets, TLC

VARIABLES
  \* ---- two calls of trivial in a row, one recursive invocation per step
  candidates,    \* the caller's array, the argument of the outermost call
  subHeadings,   \* the argument of the current invocation
  result,        \* the caller-supplied result container of the current call
  callMode,      \* the mode argument
  depth,         \* number of invocations the current call has entered
  tpc,           \* "idle" | "call" | "run" | "done"
  callNo,        \* 0 before the first call, then 1, then 2
  firstResult,   \* the result container of the first call, once it is over
  handedIn       \* the contents of candidates when the first call was made

collapseVars == <<candidates, subHeadings, result, callMode, depth, tpc,
                  callNo, firstResult, handedIn>>

VARIABLES
  \* ---- one call of getHeadingsWithOffsetPreview
  pvHeadings,    \* the headings argument
  sections,      \* view.previewMode.renderer.sections
  resolved,      \* the returned array
  opc            \* "idle" | "call" | "done"

offsetVars == <<pvHeadings, sections, resolved, opc>>

VARIABLES
  \* ---- one markdown view, its sticky container and the settings
  headings,      \* getHeadings(file, app): the document's headings
  scrollTop,     \* view.currentMode.getScroll()
  settings,      \* plugin.settings: [mode, max]
  mounted,       \* the view has a .sticky-headings-container
  container,     \* the children of .sticky-headings-container, in order
  markdownCache, \* the keys of plugin.markdownCache
  calls,         \* renderHeadings calls suspended at await parseMarkdown
  lastCall,      \* the locals of the renderHeadings call started last
  overlapped     \* that call started while another one was suspended

renderVars == <<headings, scrollTop, settings, mounted, container,
                markdownCache, calls, lastCall, overlapped>>

VARIABLES
  \* ---- the workspace and the plugin's fileResolveMap
  leafFile,       \* per leaf id: the file its markdown view shows, 0 = no such leaf
  activeLeaf,     \* the leaf of getActiveViewOfType(MarkdownView), 0 = none
  fileResolveMap, \* per leaf id: [has, resolve, file]
  onResize,       \* the leaf ids whose view.onResize is makeResize(id)
  content,        \* per file: the version of its text in the editor
  metadata,       \* per file: the version metadataCache holds headings of
  shown,          \* per leaf id: [file, ver] of the headings rendered last
  updatedIds,     \* the ids argument of the handler's updateHeadings call
  thrown          \* the handler that ran last ended in an uncaught TypeError

lifeVars == <<leafFile, activeLeaf, fileResolveMap, onResize, content,
              metadata, shown, updatedIds, thrown>>

VARIABLES
  \* ---- one call of the closure makeExpectedHeadings returns
  mkHeadings,     \* the headings argument of makeExpectedHeadings
  mkMax,          \* its max argument
  mkMode,         \* its mode argument
  mkIndex,        \* the index argument of the closure
  returned,       \* what the closure returned
  mpc             \* "idle" | "call" | "done"

expectedVars == <<mkHeadings, mkMax, mkMode, mkIndex, returned, mpc>>

vars == <<collapseVars, offsetVars, renderVars, lifeVars, expectedVars>>

\* ------------------------------------------------------------------ bounds
MaxLen == 4          \* longest candidate sequence handed to trivial
MaxSections == 3     \* most rendered sections of a preview
MaxHeight == 2       \* tallest rendered section
MaxPvHeadings == 3   \* most headings handed to the preview resolver
MaxHeadings == 2     \* most headings of the rendered document
DocLevels == 3       \* the rendered document uses levels 1..DocLevels
MaxCalls == 2        \* most renderHeadings calls suspended at once
MaxLeaves == 2       \* leaf ids 1..MaxLeaves
MaxFiles == 2        \* markdown files 1..MaxFiles
MaxEdits == 1        \* most editor changes of one file
MaxExpLen == 3       \* most headings handed to makeExpectedHeadings
MaxExpMax == 2       \* largest max handed to makeExpectedHeadings

\* ------------------------------------------------------- program constants
MaxLevel == 6        \* heading levels are 1..6; also the seed of the reduce

Modes == {"default", "concise"}
Levels == 1..MaxLevel

\* ------------------------------------------------------------ JS helpers
Min(a, b) == IF a < b THEN a ELSE b
Max(a, b) == IF a > b THEN a ELSE b

\* Array.prototype.slice(start): a negative start counts from the end, and
\* the start is clamped to 0..length. Indices are 0-based as in the source.
slice(arr, start) ==
  LET from == IF start < 0 THEN Max(Len(arr) + start, 0) ELSE Min(start, Len(arr))
  IN SubSeq(arr, from + 1, Len(arr))

\* Array.prototype.slice(start, end) for 0 <= start: the end is clamped like
\* the start, and nothing is left when it is not beyond the start.
sliceTo(arr, start, end) ==
  LET to == IF end < 0 THEN Max(Len(arr) + end, 0) ELSE Min(end, Len(arr))
      from == Min(start, Len(arr))
  IN IF to <= from THEN <<>> ELSE SubSeq(arr, from + 1, to)

\* A document's headings: heading i of a level sequence lv. idx is the
\* heading's identity (its place in the document).
Heading(i, lvl) == [idx |-> i, level |-> lvl]

HeadingsOf(lv) == [i \in 1..Len(lv) |-> Heading(i, lv[i])]

RECURSIVE SeqsUpTo(_, _)
SeqsUpTo(S, n) ==
  IF n = 0 THEN {<<>>}
  ELSE LET shorter == SeqsUpTo(S, n - 1)
       IN shorter \cup {Append(s, x) : s \in {t \in shorter : Len(t) = n - 1}, x \in S}

\* ------------------------------------------------------------- trivial
\* subHeadings.reduce((res, cur) => Math.min(res, cur.level), 6)
RECURSIVE reduceMinLevel(_, _)
reduceMinLevel(arr, res) ==
  IF arr = <<>> THEN res
  ELSE reduceMinLevel(Tail(arr), Min(res, Head(arr).level))

\* Math.max for Math.min: the deepest level of the array
topLevelOfDeepest(arr) ==
  IF arr = <<>> THEN MaxLevel
  ELSE CHOOSE m \in {arr[i].level : i \in 1..Len(arr)} :
         \A i \in 1..Len(arr) : arr[i].level <= m

topLevelOf(arr) == reduceMinLevel(arr, MaxLevel)

\* the 0-based indexes of the elements whose level is topLevel, ascending
RECURSIVE collectIndexes(_, _, _, _)
collectIndexes(arr, topLevel, index, indexes) ==
  IF index >= Len(arr) THEN indexes
  ELSE collectIndexes(arr, topLevel, index + 1,
         IF arr[index + 1].level = topLevel THEN Append(indexes, index) ELSE indexes)

indexesOfTopLevel(arr) == collectIndexes(arr, topLevelOf(arr), 0, <<>>)

\* the mode-dependent pushes onto result (the if/else of the body)
pushTopLevelFirstWins(arr, res, mode) ==
  LET indexes == indexesOfTopLevel(arr)
  IN IF mode = "concise"
     THEN IF Len(indexes) >= 1 THEN Append(res, arr[indexes[1] + 1]) ELSE res
     ELSE res \o [k \in 1..Len(indexes) |-> arr[indexes[k] + 1]]

pushTopLevelLastOnly(arr, res, mode) ==
  LET indexes == indexesOfTopLevel(arr)
  IN IF Len(indexes) >= 1 THEN Append(res, arr[indexes[Len(indexes)] + 1]) ELSE res

\* the two branches of the if/else exchanged
pushTopLevelModesSwapped(arr, res, mode) ==
  LET indexes == indexesOfTopLevel(arr)
  IN IF mode # "concise"
     THEN IF Len(indexes) >= 1
          THEN Append(res, arr[indexes[Len(indexes)] + 1])
          ELSE res
     ELSE res \o [k \in 1..Len(indexes) |-> arr[indexes[k] + 1]]

pushTopLevel(arr, res, mode) ==
  LET indexes == indexesOfTopLevel(arr)
  IN IF mode = "concise"
     THEN IF Len(indexes) >= 1
          THEN Append(res, arr[indexes[Len(indexes)] + 1])
          ELSE res
     ELSE res \o [k \in 1..Len(indexes) |-> arr[indexes[k] + 1]]

\* the argument of the recursive call:
\* subHeadings.slice(indexesOfTopLevel[indexesOfTopLevel.length - 1] + 1).
\* With no index (no level <= 6) the start is undefined + 1 = NaN, which
\* slice reads as 0.
remainderAfterFirst(arr) ==
  LET indexes == indexesOfTopLevel(arr)
  IN slice(arr, IF Len(indexes) = 0 THEN 0 ELSE indexes[1] + 1)

\* the start of the slice one too far
remainderSkipsOne(arr) ==
  LET indexes == indexesOfTopLevel(arr)
  IN slice(arr, IF Len(indexes) = 0 THEN 0 ELSE indexes[Len(indexes)] + 2)

remainder(arr) ==
  LET indexes == indexesOfTopLevel(arr)
  IN slice(arr, IF Len(indexes) = 0 THEN 0 ELSE indexes[Len(indexes)] + 1)

\* the whole call, as the callers use it: the contents of result afterwards
RECURSIVE trivial(_, _, _)
trivial(arr, res, mode) ==
  IF Len(arr) = 0 THEN res
  ELSE trivial(remainder(arr), pushTopLevel(arr, res, mode), mode)

\* ------------------------------------------- trivial, one invocation a step
CollapseIdle ==
  /\ candidates = <<>>
  /\ callMode = "default"
  /\ subHeadings = <<>>
  /\ result = <<>>
  /\ depth = 0
  /\ tpc = "idle"
  /\ callNo = 0
  /\ firstResult = <<>>
  /\ handedIn = <<>>

OffsetIdle ==
  /\ pvHeadings = <<>>
  /\ sections = <<>>
  /\ resolved = <<>>
  /\ opc = "idle"

NoCall == [valid |-> <<>>, collapsed |-> <<>>, final |-> <<>>,
           indents |-> <<>>, lastHeight |-> 0]

RenderIdle ==
  /\ headings = <<>>
  /\ scrollTop = 0
  /\ settings = [mode |-> "default", max |-> 0]
  /\ mounted = FALSE
  /\ container = <<>>
  /\ markdownCache = {}
  /\ calls = <<>>
  /\ lastCall = NoCall
  /\ overlapped = FALSE

LeafIds == 1..MaxLeaves
Files == 1..MaxFiles

NoEntry == [has |-> FALSE, resolve |-> FALSE, file |-> 0]
NothingShown == [file |-> 0, ver |-> 0]

ExpectedIdle ==
  /\ mkHeadings = <<>>
  /\ mkMax = 0
  /\ mkMode = "default"
  /\ mkIndex = 0
  /\ returned = <<>>
  /\ mpc = "idle"

\* the plugin after onload, before any workspace event
LifeIdle ==
  /\ leafFile = [id \in LeafIds |-> 0]
  /\ activeLeaf = 0
  /\ fileResolveMap = [id \in LeafIds |-> NoEntry]
  /\ onResize = {}
  /\ content = [f \in Files |-> 0]
  /\ metadata = [f \in Files |-> 0]
  /\ shown = [id \in LeafIds |-> NothingShown]
  /\ updatedIds = {}
  /\ thrown = FALSE

CollapseInit ==
  /\ OffsetIdle
  /\ RenderIdle
  /\ LifeIdle
  /\ ExpectedIdle
  /\ candidates \in {HeadingsOf(lv) : lv \in SeqsUpTo(Levels, MaxLen)}
  /\ callMode \in Modes
  /\ subHeadings = <<>>
  /\ result = <<>>
  /\ depth = 0
  /\ tpc = "call"
  /\ callNo = 0
  /\ firstResult = <<>>
  /\ handedIn = <<>>

\* the caller: const result = []; trivial(candidates, result, mode)
TrivialCall ==
  /\ tpc = "call"
  /\ subHeadings' = candidates
  /\ result' = <<>>
  /\ depth' = 1
  /\ tpc' = "run"
  /\ callNo' = 1
  /\ handedIn' = candidates
  /\ UNCHANGED <<candidates, callMode, firstResult, offsetVars, renderVars, lifeVars,
                 expectedVars>>

\* the caller again, once the first call is over, with the same array, the
\* same mode and a new empty result
TrivialCallAgain ==
  /\ tpc = "done"
  /\ callNo = 1
  /\ firstResult' = result
  /\ subHeadings' = candidates
  /\ result' = <<>>
  /\ depth' = 1
  /\ tpc' = "run"
  /\ callNo' = 2
  /\ UNCHANGED <<candidates, callMode, handedIn, offsetVars, renderVars, lifeVars,
                 expectedVars>>

\* an invocation on an empty array returns
TrivialReturn ==
  /\ tpc = "run"
  /\ Len(subHeadings) = 0
  /\ tpc' = "done"
  /\ UNCHANGED <<candidates, subHeadings, result, callMode, depth, callNo,
                 firstResult, handedIn, offsetVars, renderVars, lifeVars,
                 expectedVars>>

\* The same step had the body cut the emitted prefix out of its argument in
\* place (splice) instead of copying the rest (slice): every invocation
\* would then work on the caller's array.
TrivialRecurseInPlace ==
  /\ tpc = "run"
  /\ Len(subHeadings) # 0
  /\ result' = pushTopLevel(subHeadings, result, callMode)
  /\ subHeadings' = remainder(subHeadings)
  /\ candidates' = remainder(subHeadings)
  /\ depth' = depth + 1
  /\ UNCHANGED <<callMode, tpc, callNo, firstResult, handedIn,
                 offsetVars, renderVars, lifeVars, expectedVars>>

\* an invocation on a non-empty array pushes and recurses; reduce, forEach
\* and slice leave subHeadings (and so the caller's array) as it was
TrivialRecurse ==
  /\ tpc = "run"
  /\ Len(subHeadings) # 0
  /\ result' = pushTopLevel(subHeadings, result, callMode)
  /\ subHeadings' = remainder(subHeadings)
  /\ depth' = depth + 1
  /\ UNCHANGED <<candidates, callMode, tpc, callNo, firstResult, handedIn,
                 offsetVars, renderVars, lifeVars, expectedVars>>

CollapseNext == TrivialCall \/ TrivialCallAgain \/ TrivialReturn \/ TrivialRecurse

SpecCollapse == CollapseInit /\ [][CollapseNext]_vars

\* ------------------------------------------------- makeExpectedHeadings
\* makeExpectedHeadings(headings, max, mode)(index). The statement
\* `result.slice(-max);` computes a copy and drops it: result itself is
\* what the closure returns.
makeExpectedHeadings(hs, max, mode, index) ==
  LET subH == sliceTo(hs, 0, index)
      res == trivial(subH, <<>>, mode)
      dropped == IF max # 0 THEN slice(res, -max) ELSE res
  IN res

ExpectedInit ==
  /\ CollapseIdle
  /\ OffsetIdle
  /\ RenderIdle
  /\ LifeIdle
  /\ mkHeadings \in {HeadingsOf(lv) : lv \in SeqsUpTo(1..DocLevels, MaxExpLen)}
  /\ mkMax \in 0..MaxExpMax
  /\ mkMode \in Modes
  /\ mkIndex \in 0..(Len(mkHeadings) + 1)
  /\ returned = <<>>
  /\ mpc = "call"

\* the caller: makeExpectedHeadings(headings, max, mode)(index)
ExpectedCall ==
  /\ mpc = "call"
  /\ returned' = makeExpectedHeadings(mkHeadings, mkMax, mkMode, mkIndex)
  /\ mpc' = "done"
  /\ UNCHANGED <<mkHeadings, mkMax, mkMode, mkIndex,
                 collapseVars, offsetVars, renderVars, lifeVars>>

ExpectedNext == ExpectedCall

SpecExpected == ExpectedInit /\ [][ExpectedNext]_vars

\* ------------------------------------- getHeadingsWithOffsetPreview
\* html is the text of a rendered section, one character per element.
Htmls == { <<"<", "h", "1", ">">>, <<"<", "H", "3", ">">>,
           <<"<", "p", ">">>, <<"<", "h", "r", ">">> }

\* const isHeading = /^<h[1-6]/i, tested against html
isHeading(html) ==
  /\ Len(html) >= 3
  /\ html[1] = "<"
  /\ html[2] \in {"h", "H"}
  /\ html[3] \in {"1", "2", "3", "4", "5", "6"}

\* a section's height property: <<>> when the section has none yet
\* (undefined), <<n>> otherwise; the destructuring default `height = 0`
Heights == {<<>>} \cup {<<n>> : n \in 1..MaxHeight}

heightOf(section) == IF section.height = <<>> THEN 0 ELSE section.height[1]

Sections == [html : Htmls, height : Heights]

\* the forEach over the sections: acc.headingsOffset and acc.heightSum
forEachStepOwnHeight(acc, section) ==
  [headingsOffset |->
     IF isHeading(section.html)
     THEN Append(acc.headingsOffset, acc.heightSum + heightOf(section))
     ELSE acc.headingsOffset,
   heightSum |-> acc.heightSum + heightOf(section)]

forEachStep(acc, section) ==
  [headingsOffset |->
     IF isHeading(section.html)
     THEN Append(acc.headingsOffset, acc.heightSum)
     ELSE acc.headingsOffset,
   heightSum |-> acc.heightSum + heightOf(section)]

RECURSIVE forEachSections(_, _)
forEachSections(secs, acc) ==
  IF secs = <<>> THEN acc
  ELSE forEachSections(Tail(secs), forEachStep(acc, Head(secs)))

\* headingsOffset[index] || 0, index 0-based
offsetAtOrZero(headingsOffset, index) ==
  IF index < Len(headingsOffset) THEN headingsOffset[index + 1] ELSE 0

getHeadingsWithOffsetPreview(hs, secs) ==
  LET headingsOffset ==
        forEachSections(secs, [headingsOffset |-> <<>>, heightSum |-> 0]).headingsOffset
  IN [k \in 1..Len(hs) |->
        [heading |-> hs[k], offset |-> offsetAtOrZero(headingsOffset, k - 1)]]

OffsetInit ==
  /\ CollapseIdle
  /\ RenderIdle
  /\ LifeIdle
  /\ ExpectedIdle
  /\ pvHeadings \in {HeadingsOf([i \in 1..n |-> l]) : n \in 0..MaxPvHeadings, l \in {1, MaxLevel}}
  /\ sections \in SeqsUpTo(Sections, MaxSections)
  /\ resolved = <<>>
  /\ opc = "call"

ResolvePreview ==
  /\ opc = "call"
  /\ resolved' = getHeadingsWithOffsetPreview(pvHeadings, sections)
  /\ opc' = "done"
  /\ UNCHANGED <<pvHeadings, sections, collapseVars, renderVars, lifeVars, expectedVars>>

OffsetNext == ResolvePreview

SpecOffsets == OffsetInit /\ [][OffsetNext]_vars

\* ------------------------------------------------- the settings tab
\* the text typed into the "max" field, one character per element
Texts == { <<"2">>, <<"-", "1">>, <<"a">>, <<" ", "1", "a">> }

DigitChars == <<"0", "1", "2", "3", "4", "5", "6", "7", "8", "9">>

isDigit(c) == \E d \in 1..Len(DigitChars) : DigitChars[d] = c

digitValue(c) == (CHOOSE d \in 1..Len(DigitChars) : DigitChars[d] = c) - 1

RECURSIVE skipWhiteSpace(_)
skipWhiteSpace(text) ==
  IF text # <<>> /\ Head(text) = " " THEN skipWhiteSpace(Tail(text)) ELSE text

\* the value of the longest prefix of decimal digits, acc so far;
\* none |-> TRUE when no digit was read
RECURSIVE readDigits(_, _, _)
readDigits(text, acc, none) ==
  IF text # <<>> /\ isDigit(Head(text))
  THEN readDigits(Tail(text), 10 * acc + digitValue(Head(text)), FALSE)
  ELSE [value |-> acc, none |-> none]

\* parseInt(value, 10): leading white space, an optional sign, then decimal
\* digits up to the first other character; NaN when there is no digit
parseInt(text) ==
  LET t == skipWhiteSpace(text)
      signed == t # <<>> /\ Head(t) \in {"-", "+"}
      read == readDigits(IF signed THEN Tail(t) ELSE t, 0, TRUE)
  IN IF read.none THEN [nan |-> TRUE, value |-> 0]
     ELSE [nan |-> FALSE,
           value |-> IF signed /\ Head(t) = "-" THEN -read.value ELSE read.value]

\* n || 0: NaN and 0 are falsy
orZero(n) == IF n.nan \/ n.value = 0 THEN 0 ELSE n.value

\* max: parseInt(value, 10) || 0
maxFromText(text) == orZero(parseInt(text))

\* ----------------------------------------------------- renderHeadings
\* heading.position.end.line: the document's headings sit on consecutive
\* lines from line 0
endLine(h) == h.idx - 1

\* heading.heading, the key of markdownCache: every heading has its own text
cacheKey(h) == h.idx

\* getHeadingsWithOffsetSource: the offset of a heading is the top of the
\* line block of its line (lines are one unit high) plus the offsetTop of
\* the content container, which sits at the top of the view
lineBlockTop(line) == line

getHeadingsWithOffsetSource(hs) ==
  [k \in 1..Len(hs) |-> [heading |-> hs[k], offset |-> lineBlockTop(endLine(hs[k])) + 0]]

\* headings.filter(heading => heading.position.end.line + 1 <= scrollTop)
activeFilter(hs, top) == SelectSeq(hs, LAMBDA h : endLine(h) + 1 <= top)

\* if (this.settings.max) finalHeadings = finalHeadings.slice(-this.settings.max)
truncateKeepFirst(finalHeadings, max) ==
  IF max # 0 THEN SubSeq(finalHeadings, 1, Min(Max(max, 0), Len(finalHeadings)))
  ELSE finalHeadings

truncate(finalHeadings, max) ==
  IF max # 0 THEN slice(finalHeadings, -max) ELSE finalHeadings

\* calcIndentLevels: every distinct level, in the order it first appears in
\* the stack, takes the next unused depth from 0; a repeated level reuses
\* its depth. seen lists the levels met so far.
depthOfLevel(seen, lvl) == (CHOOSE d \in 1..Len(seen) : seen[d] = lvl) - 1

RECURSIVE calcIndentFrom(_, _, _)
calcIndentFrom(stack, seen, out) ==
  IF stack = <<>> THEN out
  ELSE LET lvl == Head(stack).level
           seenNow == IF \E d \in 1..Len(seen) : seen[d] = lvl
                      THEN seen ELSE Append(seen, lvl)
       IN calcIndentFrom(Tail(stack), seenNow, Append(out, depthOfLevel(seenNow, lvl)))

calcIndentLevels(stack) == calcIndentFrom(stack, <<>>, <<>>)

\* headingContainer.scrollHeight, in item heights
scrollHeight(cont) == Len(cont)

\* the div appended for a heading: its level class and data-indent-level
headingItem(h, indent) == [idx |-> h.idx, level |-> h.level, indent |-> indent]

\* the for loop from entry i (0-based) up to its next await or its end:
\* a heading whose text is cached is appended at once, one that is not
\* suspends the call at await parseMarkdown
RECURSIVE renderLoop(_, _, _, _, _)
renderLoop(finalHeadings, indentLevels, i, cont, cache) ==
  IF i >= Len(finalHeadings)
  THEN [container |-> cont, i |-> i, suspended |-> FALSE]
  ELSE IF cacheKey(finalHeadings[i + 1]) \in cache
       THEN renderLoop(finalHeadings, indentLevels, i + 1,
              Append(cont, headingItem(finalHeadings[i + 1], indentLevels[i + 1])),
              cache)
       ELSE [container |-> cont, i |-> i, suspended |-> TRUE]

\* renderHeadings(headings, container, scrollTop, view) up to its first
\* await (or to its end), under the settings st. The statements after the
\* loop only set the height and padding of the view and move its scroller
\* by the change of height; every scroll position is offered by Scroll.
renderHeadings(st, top) ==
  LET validHeadings == activeFilter(headings, top)
      collapsed == IF Len(validHeadings) # 0
                   THEN trivial(validHeadings, <<>>, st.mode) ELSE <<>>
      lastHeight == IF mounted THEN scrollHeight(container) ELSE 0
      finalHeadings == truncate(collapsed, st.max)
      indentLevels == calcIndentLevels(finalHeadings)
      run == renderLoop(finalHeadings, indentLevels, 0, <<>>, markdownCache)
  IN /\ mounted' = TRUE
     /\ container' = run.container
     /\ calls' = IF run.suspended
                 THEN Append(calls, [final |-> finalHeadings,
                                     indents |-> indentLevels, i |-> run.i])
                 ELSE calls
     /\ lastCall' = [valid |-> validHeadings, collapsed |-> collapsed,
                     final |-> finalHeadings, indents |-> indentLevels,
                     lastHeight |-> lastHeight]
     /\ overlapped' = (calls # <<>>)
     /\ UNCHANGED markdownCache

RemoveAt(seq, k) == SubSeq(seq, 1, k - 1) \o SubSeq(seq, k + 1, Len(seq))

Documents == {HeadingsOf(lv) : lv \in SeqsUpTo(1..DocLevels, MaxHeadings)}

\* loadSettings, then a markdown file is open in one view
RenderInit ==
  /\ CollapseIdle
  /\ OffsetIdle
  /\ LifeIdle
  /\ ExpectedIdle
  /\ headings \in Documents
  /\ scrollTop = 0
  /\ settings = [mode |-> "default", max |-> 0]
  /\ mounted = FALSE
  /\ container = <<>>
  /\ markdownCache = {}
  /\ calls = <<>>
  /\ lastCall = NoCall
  /\ overlapped = FALSE

\* detectPosition: a scroll event of the view's scroller
Scroll(top) ==
  /\ Len(calls) < MaxCalls
  /\ scrollTop' = top
  /\ renderHeadings(settings, top)
  /\ UNCHANGED <<headings, settings, collapseVars, offsetVars, lifeVars, expectedVars>>

\* view.onResize, installed by makeResize
Resize ==
  /\ Len(calls) < MaxCalls
  /\ renderHeadings(settings, scrollTop)
  /\ UNCHANGED <<headings, scrollTop, settings, collapseVars, offsetVars, lifeVars,
                 expectedVars>>

\* the mode dropdown: update({...settings, mode: value}), rerenderAll
ChangeMode(value) ==
  /\ Len(calls) < MaxCalls
  /\ settings' = [settings EXCEPT !.mode = value]
  /\ renderHeadings(settings', scrollTop)
  /\ UNCHANGED <<headings, scrollTop, collapseVars, offsetVars, lifeVars, expectedVars>>

\* the max text field: update({...settings, max: parseInt(value, 10) || 0}),
\* rerenderAll
ChangeMax(text) ==
  /\ Len(calls) < MaxCalls
  /\ settings' = [settings EXCEPT !.max = maxFromText(text)]
  /\ renderHeadings(settings', scrollTop)
  /\ UNCHANGED <<headings, scrollTop, collapseVars, offsetVars, lifeVars, expectedVars>>

\* parseMarkdown settles for the k-th suspended call: the call caches the
\* text, appends the item and runs on to its next await or its end
ParseMarkdownSettles(k) ==
  /\ k \in 1..Len(calls)
  /\ LET call == calls[k]
         h == call.final[call.i + 1]
         cache == markdownCache \cup {cacheKey(h)}
         run == renderLoop(call.final, call.indents, call.i + 1,
                  Append(container, headingItem(h, call.indents[call.i + 1])),
                  cache)
     IN /\ markdownCache' = cache
        /\ container' = run.container
        /\ calls' = IF run.suspended
                    THEN [calls EXCEPT ![k].i = run.i]
                    ELSE RemoveAt(calls, k)
  /\ UNCHANGED <<headings, scrollTop, settings, mounted, lastCall, overlapped,
                 collapseVars, offsetVars, lifeVars, expectedVars>>

\* the view scrolls, in lines, from its top to past its last heading
ScrollPositions == 0..Len(headings)

RenderNext ==
  \/ \E top \in ScrollPositions : Scroll(top)
  \/ Resize
  \/ \E value \in Modes : ChangeMode(value)
  \/ \E text \in Texts : ChangeMax(text)
  \/ \E k \in 1..MaxCalls : ParseMarkdownSettles(k)

SpecRender == RenderInit /\ [][RenderNext]_vars

\* the same handlers when every update tick runs to completion before the
\* next one: the host delivers an event only while no call is suspended
SettledNext ==
  \/ \E top \in ScrollPositions : calls = <<>> /\ Scroll(top)
  \/ calls = <<>> /\ Resize
  \/ \E value \in Modes : calls = <<>> /\ ChangeMode(value)
  \/ \E text \in Texts : calls = <<>> /\ ChangeMax(text)
  \/ ParseMarkdownSettles(1)

SpecSettled == RenderInit /\ [][SettledNext]_vars

\* ------------------------------------------- fileResolveMap life cycle
keysOf(map) == {id \in LeafIds : map[id].has}

\* checkFileResolveMap over the leaves of the workspace: every markdown
\* leaf missing from the map is added with resolve: true, then every key
\* that is no leaf any more is deleted
checkFileResolveMapKeepsAll(map, leaves) ==
  [id \in LeafIds |->
     IF map[id].has THEN map[id]
     ELSE IF leaves[id] = 0 THEN NoEntry
     ELSE [has |-> TRUE, resolve |-> TRUE, file |-> leaves[id]]]

checkFileResolveMap(map, leaves) ==
  [id \in LeafIds |->
     IF leaves[id] = 0 THEN NoEntry
     ELSE IF map[id].has THEN map[id]
     ELSE [has |-> TRUE, resolve |-> TRUE, file |-> leaves[id]]]

\* updateHeadings(ids): every id that is a key of the map has the headings
\* metadataCache holds for item.file rendered into its container
updateHeadings(ids, map, meta, sh) ==
  [id \in LeafIds |->
     IF id \in ids /\ map[id].has
     THEN [file |-> map[id].file, ver |-> meta[map[id].file]]
     ELSE sh[id]]

LifeInit ==
  /\ CollapseIdle
  /\ OffsetIdle
  /\ RenderIdle
  /\ LifeIdle
  /\ ExpectedIdle

\* a markdown leaf appears without becoming the active one (a split, a tab
\* opened in the background, the restored workspace). A new leaf has a new
\* id: one that fileResolveMap still holds for a closed leaf is not taken.
OpenLeaf(id, f) ==
  /\ leafFile[id] = 0
  /\ ~fileResolveMap[id].has
  /\ leafFile' = [leafFile EXCEPT ![id] = f]
  /\ shown' = [shown EXCEPT ![id] = NothingShown]
  /\ updatedIds' = {}
  /\ thrown' = FALSE
  /\ UNCHANGED <<activeLeaf, fileResolveMap, onResize, content, metadata,
                 collapseVars, offsetVars, renderVars, expectedVars>>

\* a leaf is closed: its view and the view's onResize go with it, the
\* entry of fileResolveMap stays until the next checkFileResolveMap
CloseLeaf(id) ==
  /\ leafFile[id] # 0
  /\ leafFile' = [leafFile EXCEPT ![id] = 0]
  /\ activeLeaf' = IF activeLeaf = id THEN 0 ELSE activeLeaf
  /\ onResize' = onResize \ {id}
  /\ updatedIds' = {}
  /\ thrown' = FALSE
  /\ UNCHANGED <<fileResolveMap, content, metadata, shown,
                 collapseVars, offsetVars, renderVars, expectedVars>>

\* workspace.on('file-open'): file f opens in leaf id, which is then the
\* active markdown view
FileOpen(id, f) ==
  /\ leafFile[id] # f
  /\ leafFile[id] = 0 => ~fileResolveMap[id].has
  /\ leafFile' = [leafFile EXCEPT ![id] = f]
  /\ activeLeaf' = id
  /\ onResize' = IF ~fileResolveMap[id].has THEN onResize \cup {id} ELSE onResize
  /\ fileResolveMap' =
       checkFileResolveMap(
         [fileResolveMap EXCEPT ![id] = [has |-> TRUE, resolve |-> TRUE, file |-> f]],
         leafFile')
  /\ updatedIds' = {id}
  /\ thrown' = FALSE
  /\ shown' = updateHeadings({id}, fileResolveMap', metadata, shown)
  /\ UNCHANGED <<content, metadata, collapseVars, offsetVars, renderVars, expectedVars>>

\* workspace.on('layout-change')
LayoutChange ==
  /\ fileResolveMap' = checkFileResolveMap(fileResolveMap, leafFile)
  /\ updatedIds' = keysOf(fileResolveMap')
  /\ thrown' = FALSE
  /\ shown' = updateHeadings(updatedIds', fileResolveMap', metadata, shown)
  /\ UNCHANGED <<leafFile, activeLeaf, onResize, content, metadata,
                 collapseVars, offsetVars, renderVars, expectedVars>>

\* workspace.on('editor-change'): the user types into the editor of the
\* active leaf, which shows f
EditorChange(f) ==
  /\ activeLeaf # 0
  /\ leafFile[activeLeaf] = f
  /\ content[f] < MaxEdits
  /\ content' = [content EXCEPT ![f] = content[f] + 1]
  /\ fileResolveMap' =
       [id \in LeafIds |->
          IF fileResolveMap[id].has /\ fileResolveMap[id].file = f
          THEN [fileResolveMap[id] EXCEPT !.resolve = FALSE]
          ELSE fileResolveMap[id]]
  /\ updatedIds' = {}
  /\ thrown' = FALSE
  /\ UNCHANGED <<leafFile, activeLeaf, onResize, metadata, shown,
                 collapseVars, offsetVars, renderVars, expectedVars>>

\* metadataCache.on('resolve'): the cache has re-read the changed file f
Resolve(f) ==
  /\ metadata[f] # content[f]
  /\ metadata' = [metadata EXCEPT ![f] = content[f]]
  /\ LET ids == {id \in LeafIds : /\ fileResolveMap[id].has
                                  /\ fileResolveMap[id].file = f
                                  /\ ~fileResolveMap[id].resolve}
     IN /\ fileResolveMap' =
             [id \in LeafIds |->
                IF id \in ids THEN [fileResolveMap[id] EXCEPT !.resolve = TRUE]
                ELSE fileResolveMap[id]]
        /\ updatedIds' = ids
        /\ thrown' = FALSE
        /\ shown' = IF ids # {}
                    THEN updateHeadings(ids, fileResolveMap', metadata', shown)
                    ELSE shown
  /\ UNCHANGED <<leafFile, activeLeaf, onResize, content,
                 collapseVars, offsetVars, renderVars, expectedVars>>

\* detectPosition: the scroller of leaf id scrolls
ScrollLeaf(id) ==
  /\ leafFile[id] # 0
  /\ updatedIds' = {k \in keysOf(fileResolveMap) : k = id}
  /\ thrown' = FALSE
  /\ shown' = updateHeadings(updatedIds', fileResolveMap, metadata, shown)
  /\ UNCHANGED <<leafFile, activeLeaf, fileResolveMap, onResize, content, metadata,
                 collapseVars, offsetVars, renderVars, expectedVars>>

\* view.onResize of a view that makeResize was installed on
ResizeLeaf(id) ==
  /\ leafFile[id] # 0
  /\ id \in onResize
  /\ updatedIds' = {id}
  /\ thrown' = FALSE
  /\ shown' = updateHeadings({id}, fileResolveMap, metadata, shown)
  /\ UNCHANGED <<leafFile, activeLeaf, fileResolveMap, onResize, content, metadata,
                 collapseVars, offsetVars, renderVars, expectedVars>>

LifeNext ==
  \/ \E id \in LeafIds, f \in Files : OpenLeaf(id, f)
  \/ \E id \in LeafIds : CloseLeaf(id)
  \/ \E id \in LeafIds, f \in Files : FileOpen(id, f)
  \/ LayoutChange
  \/ \E f \in Files : EditorChange(f)
  \/ \E f \in Files : Resolve(f)
  \/ \E id \in LeafIds : ScrollLeaf(id)
  \/ \E id \in LeafIds : ResizeLeaf(id)

SpecLife == LifeInit /\ [][LifeNext]_vars

\* the workspace events alone: leaves come and go, file-open and
\* layout-change fire, nobody types
WorkspaceNext ==
  \/ \E id \in LeafIds, f \in Files : OpenLeaf(id, f)
  \/ \E id \in LeafIds : CloseLeaf(id)
  \/ \E id \in LeafIds, f \in Files : FileOpen(id, f)
  \/ LayoutChange

SpecWorkspace == LifeInit /\ [][WorkspaceNext]_vars

\* ------------------------- the handlers of the object-keyed fileResolveMap
\* updateHeadings(ids) without the `if (item)` test: destructuring the
\* entry of an id that is no key throws a TypeError out of forEach. The
\* ids before it in the array are rendered by then, the ids after it are
\* not; the array has the keys in insertion order, which the map of this
\* model does not keep, so every split of the other ids is an outcome.
updateHeadingsV2(ids, map, meta, sh) ==
  LET missing == {id \in ids : ~map[id].has}
      rendered(done) ==
        [id \in LeafIds |->
           IF id \in done
           THEN [file |-> map[id].file, ver |-> meta[map[id].file]]
           ELSE sh[id]]
  IN IF missing = {}
     THEN {[thrown |-> FALSE, shown |-> rendered(ids)]}
     ELSE {[thrown |-> TRUE, shown |-> rendered(done)] :
             done \in SUBSET (ids \ missing)}

\* metadataCache.on('resolve') of that version: checkFileResolveMap runs
\* between the collection of the ids and updateHeadings(ids)
ResolveV2(f) ==
  /\ metadata[f] # content[f]
  /\ metadata' = [metadata EXCEPT ![f] = content[f]]
  /\ LET ids == {id \in LeafIds : /\ fileResolveMap[id].has
                                  /\ fileResolveMap[id].file = f
                                  /\ ~fileResolveMap[id].resolve}
         marked == [id \in LeafIds |->
                      IF id \in ids THEN [fileResolveMap[id] EXCEPT !.resolve = TRUE]
                      ELSE fileResolveMap[id]]
     IN /\ updatedIds' = ids
        /\ IF ids # {}
           THEN /\ fileResolveMap' = checkFileResolveMap(marked, leafFile)
                /\ \E out \in updateHeadingsV2(ids, fileResolveMap', metadata', shown) :
                     /\ thrown' = out.thrown
                     /\ shown' = out.shown
           ELSE /\ fileResolveMap' = marked
                /\ thrown' = FALSE
                /\ shown' = shown
  /\ UNCHANGED <<leafFile, activeLeaf, onResize, content,
                 collapseVars, offsetVars, renderVars, expectedVars>>

\* The other handlers of that version hand updateHeadings keys the map
\* holds at the call (file-open and layout-change right after
\* checkFileResolveMap, detectPosition and rerenderAll from the keys, a
\* view's onResize while its leaf is open), where the two versions of
\* updateHeadings act alike.
LifeNextV2 ==
  \/ \E id \in LeafIds, f \in Files : OpenLeaf(id, f)
  \/ \E id \in LeafIds : CloseLeaf(id)
  \/ \E id \in LeafIds, f \in Files : FileOpen(id, f)
  \/ LayoutChange
  \/ \E f \in Files : EditorChange(f)
  \/ \E f \in Files : ResolveV2(f)
  \/ \E id \in LeafIds : ScrollLeaf(id)
  \/ \E id \in LeafIds : ResizeLeaf(id)

SpecLifeV2 == LifeInit /\ [][LifeNextV2]_vars

\* ------------------------------------------------------------ claims
\* the largest position of arr holding a heading of the minimum level
RECURSIVE MinLevelIn(_)
MinLevelIn(arr) ==
  IF Len(arr) = 1 THEN arr[1].level
  ELSE Min(arr[1].level, MinLevelIn(Tail(arr)))

LastMinPos(arr) ==
  CHOOSE k \in 1..Len(arr) :
    /\ arr[k].level = MinLevelIn(arr)
    /\ \A j \in (k + 1)..Len(arr) : arr[j].level # MinLevelIn(arr)

MinPositions(arr) == {k \in 1..Len(arr) : arr[k].level = MinLevelIn(arr)}

RECURSIVE ConciseCollapse(_)
ConciseCollapse(arr) ==
  IF arr = <<>> THEN <<>>
  ELSE <<arr[LastMinPos(arr)]>>
         \o ConciseCollapse(SubSeq(arr, LastMinPos(arr) + 1, Len(arr)))

RECURSIVE DefaultCollapse(_)
DefaultCollapse(arr) ==
  IF arr = <<>> THEN <<>>
  ELSE SelectSeq(arr, LAMBDA h : h.level = MinLevelIn(arr))
         \o DefaultCollapse(SubSeq(arr, LastMinPos(arr) + 1, Len(arr)))

\* C1: in concise mode a finished call of trivial on an empty container
\* leaves exactly the last heading of the minimum level followed by the
\* concise collapse of what comes strictly after it (nothing for an empty
\* input); [H1 A, H2 A.1, H2 A.2, H1 B] gives [H1 B].
C1_ConciseCollapse ==
  (tpc = "done" /\ callMode = "concise") =>
    /\ result = ConciseCollapse(candidates)
    /\ candidates = HeadingsOf(<<1, 2, 2, 1>>) => result = <<Heading(4, 1)>>

C1_Witness ==
  /\ tpc = "done"
  /\ callMode = "concise"
  /\ candidates = HeadingsOf(<<1, 2, 2, 1>>)
  /\ result = <<Heading(4, 1)>>

\* C2: in default mode a finished call of trivial on an empty container
\* leaves every heading of the minimum level, in order, followed by the
\* default collapse of what comes strictly after the last of them; headings
\* between two minimum-level headings are not emitted;
\* [H1 A, H2 A.1, H2 A.2, H1 B] gives [H1 A, H1 B].
C2_DefaultCollapse ==
  (tpc = "done" /\ callMode = "default") =>
    /\ result = DefaultCollapse(candidates)
    /\ candidates # <<>> =>
         \A k \in 1..LastMinPos(candidates) :
           (\E j \in 1..Len(result) : result[j] = candidates[k])
             <=> k \in MinPositions(candidates)
    /\ candidates = HeadingsOf(<<1, 2, 2, 1>>)
         => result = <<Heading(1, 1), Heading(4, 1)>>

C2_Witness ==
  /\ tpc = "done"
  /\ callMode = "default"
  /\ candidates = HeadingsOf(<<1, 2, 2, 1>>)
  /\ result = <<Heading(1, 1), Heading(4, 1)>>

\* sub is a subsequence of full: its elements occur in full, in order
RECURSIVE IsSubsequence(_, _)
IsSubsequence(sub, full) ==
  IF sub = <<>> THEN TRUE
  ELSE IF full = <<>> THEN FALSE
  ELSE IF Head(sub) = Head(full) THEN IsSubsequence(Tail(sub), Tail(full))
  ELSE IsSubsequence(sub, Tail(full))

NoRepeat(seq) == \A i, j \in 1..Len(seq) : seq[i] = seq[j] => i = j

\* the items renderHeadings appends for a stack and its indent levels
ItemsOf(stack, indents) ==
  [j \in 1..Len(stack) |-> headingItem(stack[j], indents[j])]

\* C3: the stack a renderHeadings call renders (filter, trivial, truncation)
\* is a subsequence of the document's headings: every heading of it is a
\* heading of the document, none occurs twice, document order is kept. It
\* holds of the call started last and of every call still suspended.
C3_Subsequence ==
  /\ mounted =>
       /\ IsSubsequence(lastCall.valid, headings)
       /\ IsSubsequence(lastCall.final, headings)
       /\ NoRepeat(lastCall.final)
  /\ \A k \in 1..Len(calls) :
       IsSubsequence(calls[k].final, headings) /\ NoRepeat(calls[k].final)

\* a finished call rendered a stack from which the collapse dropped the
\* first heading of the document
C3_Witness ==
  /\ mounted
  /\ calls = <<>>
  /\ Len(headings) = 2
  /\ Len(lastCall.valid) = 2
  /\ lastCall.final = <<headings[2]>>
  /\ settings.max = 0
  /\ container = ItemsOf(lastCall.final, lastCall.indents)

\* the heading list paired with the offsets the resolver gives
OffsetOf(h) ==
  LET positioned == getHeadingsWithOffsetSource(headings)
  IN positioned[CHOOSE k \in 1..Len(headings) : headings[k] = h].offset

\* C4: the filter applied before the collapse selects exactly the headings
\* whose resolved offset is at most scrollTop plus the height of the sticky
\* band, each heading tested on its own, order kept.
C4_OffsetFilter ==
  mounted =>
    lastCall.valid =
      SelectSeq(headings, LAMBDA h : OffsetOf(h) <= scrollTop + lastCall.lastHeight)

\* C5: with settings.max > 0 the rendered stack has min(len(collapsed), max)
\* headings and is the tail of the collapsed stack; with settings.max = 0 it
\* is the collapsed stack.
C5_Truncation ==
  mounted =>
    /\ settings.max > 0 =>
         /\ Len(lastCall.final) = Min(Len(lastCall.collapsed), settings.max)
         /\ lastCall.final =
              SubSeq(lastCall.collapsed,
                     Len(lastCall.collapsed) - Len(lastCall.final) + 1,
                     Len(lastCall.collapsed))
    /\ settings.max = 0 => lastCall.final = lastCall.collapsed

\* max = 1 cut a collapsed stack of two headings down to its last one
C5_Witness ==
  /\ mounted
  /\ settings.max = 1
  /\ Len(lastCall.collapsed) = 2
  /\ lastCall.final = <<lastCall.collapsed[2]>>

\* C6: when the stack is truncated to max entries, every heading kept
\* carries the indent depth it has in the untruncated collapsed stack.
C6_IndentKept ==
  (mounted /\ settings.max > 0 /\ Len(lastCall.collapsed) > settings.max) =>
    \A j \in 1..Len(lastCall.final) :
      lastCall.indents[j] =
        calcIndentLevels(lastCall.collapsed)
          [Len(lastCall.collapsed) - Len(lastCall.final) + j]

\* C7: when the call started last began while an earlier call was suspended,
\* then once no call is suspended any more the container holds exactly the
\* items of the stack of the call started last, in order.
C7_LastCallWins ==
  (overlapped /\ calls = <<>>) =>
    container = ItemsOf(lastCall.final, lastCall.indents)

\* C8: the resolve event of a changed file f invokes updateHeadings for
\* every view in fileResolveMap that shows f, and leaves none of them with
\* headings of an older version than the cache now holds, whatever
\* file-open, layout-change or scroll events came since the change.
C8_ResolveUpdatesAll ==
  [][\A f \in Files :
       Resolve(f) =>
         \A id \in keysOf(fileResolveMap') :
           fileResolveMap'[id].file = f =>
             /\ id \in updatedIds'
             /\ shown'[id] = [file |-> f, ver |-> metadata'[f]]]_vars

\* C9: settings.max is never negative, and a value stored for a negative or
\* non-numeric text removes no heading from the rendered stack.
C9_MaxNormalized ==
  /\ settings.max >= 0
  /\ (mounted /\ settings.max <= 0) => lastCall.final = lastCall.collapsed

\* positions of the rendered heading sections, ascending
HeadingSectionPositions(secs) == {p \in 1..Len(secs) : isHeading(secs[p].html)}

\* the position of the k-th rendered heading section, 0 when there is none
KthHeadingSection(secs, k) ==
  IF Cardinality(HeadingSectionPositions(secs)) < k THEN 0
  ELSE CHOOSE p \in HeadingSectionPositions(secs) :
         Cardinality({q \in HeadingSectionPositions(secs) : q <= p}) = k

RECURSIVE SumHeights(_, _)
SumHeights(secs, n) ==
  IF n = 0 THEN 0 ELSE SumHeights(secs, n - 1) + heightOf(secs[n])

\* C10: getHeadingsWithOffsetPreview returns one entry per input heading in
\* input order; the offset of the k-th heading is the sum of the heights of
\* the sections before the k-th rendered heading section (its own height
\* excluded), and 0 when there is no k-th rendered heading section.
C10_PreviewOffsets ==
  opc = "done" =>
    /\ Len(resolved) = Len(pvHeadings)
    /\ \A k \in 1..Len(pvHeadings) :
         /\ resolved[k].heading = pvHeadings[k]
         /\ resolved[k].offset =
              IF KthHeadingSection(sections, k) = 0 THEN 0
              ELSE SumHeights(sections, KthHeadingSection(sections, k) - 1)

\* two headings, the second with a taller section before it, and a third
\* heading that has no rendered section
C10_Witness ==
  /\ opc = "done"
  /\ Len(pvHeadings) = 3
  /\ Cardinality(HeadingSectionPositions(sections)) = 2
  /\ resolved[1].offset > 0
  /\ resolved[2].offset > resolved[1].offset + 1
  /\ resolved[3].offset = 0

\* ------------------------------------------------------------------ C11
\* C11: two calls of trivial on the same candidates and mode, each with a
\* new empty result, leave equal results, and the caller's candidate array
\* holds after each call what it held when it was handed in.
C11_DeterministicNoMutation ==
  /\ (tpc \in {"run", "done"}) => candidates = handedIn
  /\ (tpc = "done" /\ callNo = 2) => result = firstResult

C11_Witness ==
  /\ tpc = "done"
  /\ callNo = 2
  /\ Len(candidates) = 3
  /\ Len(result) = 2
  /\ result = firstResult

\* ------------------------------------------------------------------ C12
LevelsIn(hs) == {hs[i].level : i \in 1..Len(hs)}

StrictlyIncreasing(hs) ==
  \A j, k \in 1..Len(hs) : j < k => hs[j].level < hs[k].level

\* C12: in concise mode the levels of the output of trivial increase
\* strictly from one entry to the next, so no level is there twice and the
\* output has at most as many entries as the input has levels, at most 6.
C12_ConciseStrictlyIncreasing ==
  (tpc = "done" /\ callMode = "concise") =>
    /\ StrictlyIncreasing(result)
    /\ Len(result) <= Cardinality(LevelsIn(candidates))
    /\ Len(result) <= MaxLevel

C12_Witness ==
  /\ tpc = "done"
  /\ callMode = "concise"
  /\ Len(candidates) = 4
  /\ Cardinality(LevelsIn(candidates)) = 2
  /\ Len(result) = 2
  /\ candidates[1].level = candidates[3].level

\* ------------------------------------------------------------------ C13
\* the output of the call in the given mode: what the call of this
\* behaviour left in result if that was its mode, a call of its own if not
OutputIn(mode) ==
  IF callMode = mode THEN result ELSE trivial(candidates, <<>>, mode)

\* C13: for the same candidates, the levels of the concise output are
\* among the levels of the default output, and the concise output is a
\* subsequence of the default output.
C13_ConciseWithinDefault ==
  (tpc = "done") =>
    /\ LevelsIn(OutputIn("concise")) \subseteq LevelsIn(OutputIn("default"))
    /\ IsSubsequence(OutputIn("concise"), OutputIn("default"))

C13_Witness ==
  /\ tpc = "done"
  /\ Len(candidates) = 4
  /\ Len(OutputIn("concise")) = 2
  /\ Len(OutputIn("default")) = 4

\* ------------------------------------------------------------------ C14
\* C14: candidates whose levels increase strictly, gaps included, come
\* back from trivial as they went in, in either mode.
C14_IncreasingUnchanged ==
  (tpc = "done" /\ StrictlyIncreasing(candidates)) => result = candidates

C14_Witness ==
  /\ tpc = "done"
  /\ Len(candidates) = 3
  /\ candidates[1].level = 1
  /\ candidates[2].level = 3
  /\ candidates[3].level = 6
  /\ result = candidates

\* ------------------------------------------------------------------ C15
\* C15: makeExpectedHeadings(headings, max, mode)(index) returns the
\* collapse of the first index headings, cut to its last max entries when
\* max > 0, so for a positive max never more than max headings.
C15_ExpectedTruncated ==
  (mpc = "done") =>
    LET collapsed == trivial(sliceTo(mkHeadings, 0, mkIndex), <<>>, mkMode)
    IN /\ mkMax > 0 => returned = slice(collapsed, -mkMax)
       /\ mkMax > 0 => Len(returned) <= mkMax
       /\ mkMax = 0 => returned = collapsed

\* ------------------------------------------------------------------ C16
\* C16: updateHeadings(ids) does not throw when an id of ids is no key of
\* fileResolveMap any more: that id is skipped and the ids that are keys
\* are rendered from the headings metadataCache holds.
C16_UpdateNeverThrows ==
  /\ ~thrown
  /\ \A id \in updatedIds :
       fileResolveMap[id].has =>
         shown[id] = [file |-> fileResolveMap[id].file,
                      ver |-> metadata[fileResolveMap[id].file]]

\* ------------------------------------------------------------------ C17
\* C17: the view of every key of fileResolveMap has the makeResize
\* handler as its onResize, whichever handler added the key.
C17_ResizeInstalled ==
  \A id \in keysOf(fileResolveMap) : leafFile[id] # 0 => id \in onResize

\* ------------------------------------------------------------------ C18
\* C18: a call of trivial ends: every recursive invocation gets a
\* strictly shorter array that holds only levels above the minimum of the
\* invocation before it, and a call enters at most one invocation more
\* than its candidates have levels, at most 7.
C18_RecursionBounded ==
  (tpc \in {"run", "done"}) =>
    /\ depth <= Cardinality(LevelsIn(candidates)) + 1
    /\ depth <= MaxLevel + 1
    /\ Len(subHeadings) <= Len(candidates) - (depth - 1)
    /\ depth > 1 =>
         /\ result # <<>>
         /\ \A i \in 1..Len(subHeadings) :
              subHeadings[i].level > result[Len(result)].level

C18_Witness ==
  /\ tpc = "done"
  /\ depth = 4
  /\ Len(candidates) = 4
  /\ Cardinality(LevelsIn(candidates)) = 3

\* ------------------------------------------------------------------ C19
\* C19: when a file-open or layout-change handler has run (both call
\* checkFileResolveMap), the keys of fileResolveMap are the ids of the
\* open markdown leaves that show a file: no id of a closed leaf is left
\* and no open leaf is missing.
C19_KeysAreOpenLeaves ==
  [][(LayoutChange \/ \E id \in LeafIds, f \in Files : FileOpen(id, f)) =>
       keysOf(fileResolveMap') = {id \in LeafIds : leafFile'[id] # 0}]_vars

\* leaf 1 was a key (headings were rendered for it) and is closed, leaf 2
\* came without a file-open of its own (no onResize), and the handler that
\* ran last left leaf 2 as the only key
C19_Witness ==
  /\ leafFile[1] = 0
  /\ shown[1].file # 0
  /\ leafFile[2] # 0
  /\ keysOf(fileResolveMap) = {2}
  /\ 2 \notin onResize
  /\ updatedIds = {2}

\* ------------------------------------------------------------------ C20
\* C20: for candidates that are not empty, in either mode, the last entry
\* of the output of trivial is the last candidate.
C20_LastIsLast ==
  (tpc = "done" /\ candidates # <<>>) =>
    /\ result # <<>>
    /\ result[Len(result)] = candidates[Len(candidates)]

C20_Witness ==
  /\ tpc = "done"
  /\ callMode = "default"
  /\ Len(candidates) = 3
  /\ Len(result) = 1

\* ------------------------------------------------------------------ C21
\* C21: in default mode the levels of the output of trivial never go
\* down from one entry to the next: no heading of the stack is followed
\* by a heading of a smaller level. It holds of result after every
\* invocation of the call, not only at its end.
C21_DefaultNonDecreasing ==
  (tpc \in {"run", "done"} /\ callMode = "default") =>
    \A j \in 1..(Len(result) - 1) : result[j].level <= result[j + 1].level

C21_Witness ==
  /\ tpc = "done"
  /\ callMode = "default"
  /\ Len(candidates) = 4
  /\ candidates[2].level > candidates[3].level
  /\ Len(result) = 3
  /\ result[1].level = result[2].level
  /\ result[2].level < result[3].level

====
